---- MODULE Spec2Model ----
(* Model of boppreh/maze, src/maze.py: the Cell and Maze classes, the       *)
(* recursive-backtracking generator Maze.randomize and the text rendering   *)
(* Maze.__repr__.                                                           *)
(*                                                                          *)
(* A cell object is referred to by its position in the list Maze.cells      *)
(* (0-based, as in Python); the list itself is the sequence `cells` of      *)
(* records [x, y, walls].  Python's None is the reference NoneRef.          *)
(* `walk` is a history variable: the cells that have been the current cell  *)
(* of the running randomize call, in order.                                 *)
EXTENDS Integers, Sequences, FiniteSets, TLC

VARIABLES width, height, cells,
          pc, cell, cell_stack, n_visited_cells, n_calls,
          call, ret,
          run, tape, trace,
          walk,
          game, player, target, current_text

coreVars == <<cells, pc, cell, cell_stack, n_visited_cells>>
apiVars  == <<call, ret>>
detVars  == <<run, tape, trace>>
gameVars == <<game, player, target, current_text>>
vars == <<width, height, cells, pc, cell, cell_stack, n_visited_cells,
          n_calls, call, ret, run, tape, trace, walk, game, player, target, current_text>>

(* ------------------------------ bounds ---------------------------------- *)
(* Largest number of cells of a grid, per specification. *)
MaxCells     == 9
MaxConnCells == 6
MaxDetCells  == 6
MaxGameCells == 6
(* Calls of randomize made on one maze. *)
MaxCalls  == 2
(* How far outside the grid a looked-up coordinate may lie. *)
MaxOutside == 1

(* --------------------------- src/maze.py:4 ------------------------------ *)
N == "n"
S == "s"
W == "w"
E == "e"

NoneRef == -1

Abs(i) == IF i < 0 THEN -i ELSE i

(* Python list indexing with a non-negative index. *)
ListGet(list, i) == list[i + 1]

(* ------------------------------- Cell ----------------------------------- *)
Cell(x, y, walls) == [x |-> x, y |-> y, walls |-> walls]

(* is_full taken as "at most one wall removed". *)
is_full_atleast3(c) == Cardinality(c.walls) >= 3

is_full(c) == Cardinality(c.walls) = 4

(* _wall_to with West and East exchanged. *)
wall_to_swapped(self, other) ==
    IF Abs(self.x - other.x) + Abs(self.y - other.y) # 1 THEN "AssertionError"
    ELSE IF other.y < self.y THEN N
    ELSE IF other.y > self.y THEN S
    ELSE IF other.x < self.x THEN E
    ELSE IF other.x > self.x THEN W
    ELSE "AssertionError"

(* _wall_to without the distance assertion of line 35. *)
wall_to_unchecked(self, other) ==
    IF other.y < self.y THEN N
    ELSE IF other.y > self.y THEN S
    ELSE IF other.x < self.x THEN W
    ELSE IF other.x > self.x THEN E
    ELSE "AssertionError"

(* Cell._wall_to: the direction, or the AssertionError it raises. *)
wall_to(self, other) ==
    IF Abs(self.x - other.x) + Abs(self.y - other.y) # 1 THEN "AssertionError"
    ELSE IF other.y < self.y THEN N
    ELSE IF other.y > self.y THEN S
    ELSE IF other.x < self.x THEN W
    ELSE IF other.x > self.x THEN E
    ELSE "AssertionError"

(* The wall set rebuilt from all four walls instead of updated. *)
walls_remove_rebuilt(cs, r, d) ==
    IF d = "AssertionError" THEN [cells |-> cs, exc |-> "AssertionError"]
    ELSE IF d \notin ListGet(cs, r).walls THEN [cells |-> cs, exc |-> "KeyError"]
    ELSE [cells |-> [cs EXCEPT ![r + 1].walls = {N, S, E, W} \ {d}], exc |-> "None"]

(* set.remove on the wall set of the cell with reference r: the new list    *)
(* and the exception raised ("None" when it returns normally).              *)
walls_remove(cs, r, d) ==
    IF d = "AssertionError" THEN [cells |-> cs, exc |-> "AssertionError"]
    ELSE IF d \notin ListGet(cs, r).walls THEN [cells |-> cs, exc |-> "KeyError"]
    ELSE [cells |-> [cs EXCEPT ![r + 1].walls = @ \ {d}], exc |-> "None"]

(* connect removing only the wall of self. *)
connect_self_only(cs, self, other) ==
    walls_remove(cs, self, wall_to(ListGet(cs, self), ListGet(cs, other)))

(* Cell.connect: self and other are references into cs. *)
connect(cs, self, other) ==
    LET first == walls_remove(cs, other, wall_to(ListGet(cs, other), ListGet(cs, self)))
    IN  IF first.exc # "None" THEN first
        ELSE walls_remove(first.cells, self,
                          wall_to(ListGet(first.cells, self), ListGet(first.cells, other)))

(* ------------------------------- Maze ----------------------------------- *)
RECURSIVE init_row(_, _, _)
init_row(y, x, w) ==
    IF x >= w THEN <<>>
    ELSE <<Cell(x, y, {N, S, E, W})>> \o init_row(y, x + 1, w)

RECURSIVE init_rows(_, _, _)
init_rows(y, w, h) ==
    IF y >= h THEN <<>>
    ELSE init_row(y, 0, w) \o init_rows(y + 1, w, h)

(* Maze.__init__: the list self.cells. *)
Maze_init(w, h) == init_rows(0, w, h)

(* __getitem__ testing only the upper limits, so that a negative index     *)
(* reaches the list, where Python counts it from the end.                  *)
getitem_upper_only(w, h, x, y) ==
    IF x < w /\ y < h
    THEN IF x + y * w >= 0 THEN x + y * w
         ELSE IF x + y * w + w * h >= 0 THEN x + y * w + w * h
         ELSE NoneRef
    ELSE NoneRef

(* Maze.__getitem__: the reference of the cell returned, or NoneRef. *)
getitem(w, h, x, y) ==
    IF 0 <= x /\ x < w /\ 0 <= y /\ y < h THEN x + y * w ELSE NoneRef

(* neighbors trying East before West. *)
neighbors_east_first(cs, w, h, c) ==
    LET x == ListGet(cs, c).x
        y == ListGet(cs, c).y
        cand == << <<x, y - 1>>, <<x, y + 1>>, <<x + 1, y>>, <<x - 1, y>> >>
        got == [i \in 1..4 |-> getitem(w, h, cand[i][1], cand[i][2])]
        keep(r) == r # NoneRef
    IN  SelectSeq(got, keep)

(* Maze.neighbors: the references yielded, in order. *)
neighbors(cs, w, h, c) ==
    LET x == ListGet(cs, c).x
        y == ListGet(cs, c).y
        cand == << <<x, y - 1>>, <<x, y + 1>>, <<x - 1, y>>, <<x + 1, y>> >>
        got == [i \in 1..4 |-> getitem(w, h, cand[i][1], cand[i][2])]
        keep(r) == r # NoneRef
    IN  SelectSeq(got, keep)

(* random.choice(seq) when the generator draws index r. *)
random_choice(seq, r) == seq[r + 1]

(* [c for c in self.neighbors(cell) if c.is_full()] *)
full_neighbors(cs, w, h, c) ==
    LET full(r) == is_full(ListGet(cs, r))
    IN  SelectSeq(neighbors(cs, w, h, c), full)

(* ---------------------------- Maze.__repr__ ----------------------------- *)
(* str_matrix[y][x], rows 0..2*h and columns 0..2*w, all 'O'. *)
str_matrix_init(w, h) == [y \in 0..(h * 2) |-> [x \in 0..(w * 2) |-> "O"]]

(* The loop body without the North test of lines 114-115. *)
repr_cell_no_north(m, c, w) ==
    LET x  == c.x * 2 + 1
        y  == c.y * 2 + 1
        m0 == [m EXCEPT ![y][x] = " "]
        m2 == IF S \notin c.walls /\ y + 1 < w THEN [m0 EXCEPT ![y + 1][x] = " "] ELSE m0
        m3 == IF W \notin c.walls /\ x > 0 THEN [m2 EXCEPT ![y][x - 1] = " "] ELSE m2
        m4 == IF E \notin c.walls /\ x + 1 < w THEN [m3 EXCEPT ![y][x + 1] = " "] ELSE m3
    IN  m4

(* The body of `for cell in self.cells` for one cell c. *)
repr_cell(m, c, w) ==
    LET x  == c.x * 2 + 1
        y  == c.y * 2 + 1
        m0 == [m EXCEPT ![y][x] = " "]
        m1 == IF N \notin c.walls /\ y > 0 THEN [m0 EXCEPT ![y - 1][x] = " "] ELSE m0
        m2 == IF S \notin c.walls /\ y + 1 < w THEN [m1 EXCEPT ![y + 1][x] = " "] ELSE m1
        m3 == IF W \notin c.walls /\ x > 0 THEN [m2 EXCEPT ![y][x - 1] = " "] ELSE m2
        m4 == IF E \notin c.walls /\ x + 1 < w THEN [m3 EXCEPT ![y][x + 1] = " "] ELSE m3
    IN  m4

RECURSIVE repr_loop(_, _, _, _)
repr_loop(m, cs, i, w) ==
    IF i > Len(cs) THEN m
    ELSE repr_loop(repr_cell(m, cs[i], w), cs, i + 1, w)

(* ''.join(line): the characters of one row, left to right. *)
join_line(line, w) == [i \in 1..(w * 2 + 1) |-> line[i - 1]]

(* '\n'.join(...) + '\n': the returned string as a sequence of characters. *)
RECURSIVE join_lines(_, _, _, _)
join_lines(m, y, w, h) ==
    IF y > h * 2 THEN <<>>
    ELSE IF y = h * 2 THEN join_line(m[y], w) \o <<"\n">>
    ELSE join_line(m[y], w) \o <<"\n">> \o join_lines(m, y + 1, w, h)

(* Maze.__repr__ *)
repr(cs, w, h) == join_lines(repr_loop(str_matrix_init(w, h), cs, 1, w), 0, w, h)

(* ------------------------------ state ----------------------------------- *)
(* The state right after Maze(w, h) has been constructed. *)
Fresh(w, h) ==
    /\ width = w
    /\ height = h
    /\ cells = Maze_init(w, h)
    /\ pc = "idle"
    /\ cell = NoneRef
    /\ cell_stack = <<>>
    /\ n_visited_cells = 0
    /\ n_calls = 0
    /\ call = <<"Maze", w, h>>
    /\ ret = <<"None">>
    /\ run = 0
    /\ tape = <<>>
    /\ trace = <<>>
    /\ walk = <<>>
    /\ game = "none"
    /\ player = <<0, 0>>
    /\ target = <<0, 0>>
    /\ current_text = <<>>

(* The grid sizes with at most n cells. *)
Sizes(n) == {d \in (1..n) \X (1..n) : d[1] * d[2] <= n}

Init == \E d \in Sizes(MaxCells) : Fresh(d[1], d[2])

(* The locals of randomize, as compared between two runs. *)
Locals == [cells |-> cells, cell |-> cell, cell_stack |-> cell_stack,
           n_visited_cells |-> n_visited_cells, pc |-> pc]

(* --------------------------- Maze.randomize ----------------------------- *)
(* randomize keeping the stack of the previous call (a stack shared       *)
(* between calls instead of the fresh list of line 131).                   *)
randomize_begin_shared_stack(r) ==
    /\ pc = "idle"
    /\ r \in 0..(Len(cells) - 1)
    /\ cell' = random_choice([i \in 1..Len(cells) |-> i - 1], r)
    /\ n_visited_cells' = 1
    /\ pc' = "loop"
    /\ call' = <<"randomize">>
    /\ ret' = <<"None">>
    /\ walk' = <<cell'>>
    /\ UNCHANGED <<cells, cell_stack>>

(* Lines 131-133: r is the index random.choice draws in self.cells. *)
randomize_begin(r) ==
    /\ pc = "idle"
    /\ r \in 0..(Len(cells) - 1)
    /\ cell_stack' = <<>>
    /\ cell' = random_choice([i \in 1..Len(cells) |-> i - 1], r)
    /\ n_visited_cells' = 1
    /\ pc' = "loop"
    /\ call' = <<"randomize">>
    /\ ret' = <<"None">>
    /\ walk' = <<cell'>>
    /\ UNCHANGED cells

(* The loop condition stopping one cell early. *)
loop_cond_early(n, cs) == n < Len(cs) - 1

(* The loop condition running one iteration too long. *)
loop_cond_late(n, cs) == n <= Len(cs)

(* Line 135: the loop condition. *)
loop_cond(n, cs) == n < Len(cs)

(* The stack replaced by [c] instead of appended to. *)
stack_push_reset(stack, c) == <<c>>

(* Line 140: the list after cell_stack.append(c). *)
stack_push(stack, c) == Append(stack, c)

(* pop() reading the last element without removing it. *)
stack_pop_peek(stack) == stack

(* pop() dropping two elements. *)
stack_pop_two(stack) == SubSeq(stack, 1, Len(stack) - 2)

(* The list left by cell_stack.pop(). *)
stack_pop(stack) == SubSeq(stack, 1, Len(stack) - 1)

(* Line 135 false: the loop ends and randomize returns None. *)
randomize_return ==
    /\ pc = "loop"
    /\ ~loop_cond(n_visited_cells, cells)
    /\ pc' = "idle"
    /\ ret' = <<"None">>
    /\ UNCHANGED <<cells, cell, cell_stack, n_visited_cells, call, walk>>

(* Lines 136-142: r is the index random.choice draws in neighbors. *)
randomize_advance(r) ==
    /\ pc = "loop"
    /\ loop_cond(n_visited_cells, cells)
    /\ \E neighbors_ \in {full_neighbors(cells, width, height, cell)} :
          /\ Len(neighbors_) # 0
          /\ r \in 0..(Len(neighbors_) - 1)
          /\ \E neighbor \in {random_choice(neighbors_, r)} :
             \E res \in {connect(cells, cell, neighbor)} :
                /\ cells' = res.cells
                /\ IF res.exc # "None"
                   THEN /\ pc' = "idle"
                        /\ ret' = <<"raise", res.exc>>
                        /\ UNCHANGED <<cell, cell_stack, n_visited_cells, walk>>
                   ELSE /\ cell_stack' = stack_push(cell_stack, cell)
                        /\ cell' = neighbor
                        /\ n_visited_cells' = n_visited_cells + 1
                        /\ walk' = Append(walk, neighbor)
                        /\ UNCHANGED <<pc, ret>>
    /\ UNCHANGED call

(* Lines 143-144: list.pop() raises IndexError on an empty list. *)
randomize_backtrack ==
    /\ pc = "loop"
    /\ loop_cond(n_visited_cells, cells)
    /\ Len(full_neighbors(cells, width, height, cell)) = 0
    /\ IF Len(cell_stack) = 0
       THEN /\ pc' = "idle"
            /\ ret' = <<"raise", "IndexError">>
            /\ UNCHANGED <<cell, cell_stack, walk>>
       ELSE /\ cell' = cell_stack[Len(cell_stack)]
            /\ walk' = Append(walk, cell_stack[Len(cell_stack)])
            /\ cell_stack' = stack_pop(cell_stack)
            /\ UNCHANGED <<pc, ret>>
    /\ UNCHANGED <<cells, n_visited_cells, call>>

(* ------------------- calls made by the code using a Maze ---------------- *)
(* maze.randomize() is called. *)
Randomize ==
    /\ n_calls < MaxCalls
    /\ \E r \in 0..(Len(cells) - 1) : randomize_begin(r)
    /\ n_calls' = n_calls + 1
    /\ UNCHANGED <<width, height, detVars, gameVars>>

Advance ==
    /\ \E r \in 0..3 : randomize_advance(r)
    /\ UNCHANGED <<width, height, n_calls, detVars, gameVars>>

Backtrack ==
    /\ randomize_backtrack
    /\ UNCHANGED <<width, height, n_calls, detVars, gameVars>>

Return ==
    /\ randomize_return
    /\ UNCHANGED <<width, height, n_calls, detVars, gameVars>>

(* str(maze) is called. *)
Repr ==
    /\ pc = "idle"
    /\ call' = <<"repr">>
    /\ ret' = <<"str", repr(cells, width, height)>>
    /\ UNCHANGED <<width, height, cells, pc, cell, cell_stack, n_visited_cells,
                   n_calls, detVars, walk, gameVars>>

(* a.connect(b) is called on two cells of the maze. *)
Connect ==
    /\ pc = "idle"
    /\ \E a \in 0..(Len(cells) - 1), b \in 0..(Len(cells) - 1) :
          \E res \in {connect(cells, a, b)} :
              /\ cells' = res.cells
              /\ call' = <<"connect", a, b>>
              /\ ret' = IF res.exc = "None" THEN <<"None">> ELSE <<"raise", res.exc>>
    /\ UNCHANGED <<width, height, pc, cell, cell_stack, n_visited_cells,
                   n_calls, detVars, walk, gameVars>>

(* maze[x, y] is evaluated. *)
GetItem ==
    /\ pc = "idle"
    /\ \E x \in (0 - MaxOutside)..(width - 1 + MaxOutside),
          y \in (0 - MaxOutside)..(height - 1 + MaxOutside) :
          LET r == getitem(width, height, x, y)
          IN  /\ call' = <<"getitem", x, y>>
              /\ ret' = IF r = NoneRef THEN <<"None">> ELSE <<"cell", r>>
    /\ UNCHANGED <<width, height, cells, pc, cell, cell_stack, n_visited_cells,
                   n_calls, detVars, walk, gameVars>>

Step == Advance \/ Backtrack \/ Return

Next == Randomize \/ Advance \/ Backtrack \/ Return \/ Repr

Spec == Init /\ [][Next]_vars

(* A maze used only through connect, lookups and rendering. *)
InitConn == \E d \in Sizes(MaxConnCells) : Fresh(d[1], d[2])

NextConn == Connect \/ GetItem \/ Repr

SpecConn == InitConn /\ [][NextConn]_vars

(* Two runs of randomize on fresh grids of one size: the first draws its   *)
(* random choices freely and records them on `tape` and its states in     *)
(* `trace`; the second, on a newly constructed grid, is fed the tape.      *)
DetRandomize1 ==
    /\ run = 0
    /\ \E r \in 0..(Len(cells) - 1) :
          /\ randomize_begin(r)
          /\ tape' = <<r>>
    /\ run' = 1
    /\ trace' = <<Locals'>>
    /\ UNCHANGED <<width, height, n_calls, gameVars>>

DetAdvance1 ==
    /\ run = 1
    /\ \E r \in 0..3 :
          /\ randomize_advance(r)
          /\ tape' = Append(tape, r)
    /\ trace' = Append(trace, Locals')
    /\ UNCHANGED <<width, height, n_calls, run, gameVars>>

DetBacktrack1 ==
    /\ run = 1
    /\ randomize_backtrack
    /\ trace' = Append(trace, Locals')
    /\ UNCHANGED <<width, height, n_calls, run, tape, gameVars>>

DetReturn1 ==
    /\ run = 1
    /\ randomize_return
    /\ trace' = Append(trace, Locals')
    /\ UNCHANGED <<width, height, n_calls, run, tape, gameVars>>

(* Maze(width, height) is constructed again for the second run. *)
DetNewMaze ==
    /\ run = 1
    /\ pc = "idle"
    /\ cells' = Maze_init(width, height)
    /\ call' = <<"Maze", width, height>>
    /\ ret' = <<"None">>
    /\ run' = 2
    /\ UNCHANGED <<width, height, pc, cell, cell_stack, n_visited_cells,
                   n_calls, tape, trace, walk, gameVars>>

DetRandomize2 ==
    /\ run = 2
    /\ call[1] = "Maze"
    /\ tape # <<>>
    /\ randomize_begin(Head(tape))
    /\ tape' = Tail(tape)
    /\ UNCHANGED <<width, height, n_calls, run, trace, gameVars>>

DetAdvance2 ==
    /\ run = 2
    /\ call[1] = "randomize"
    /\ tape # <<>>
    /\ randomize_advance(Head(tape))
    /\ tape' = Tail(tape)
    /\ trace' = Tail(trace)
    /\ UNCHANGED <<width, height, n_calls, run, gameVars>>

DetBacktrack2 ==
    /\ run = 2
    /\ call[1] = "randomize"
    /\ randomize_backtrack
    /\ trace' = Tail(trace)
    /\ UNCHANGED <<width, height, n_calls, run, tape, gameVars>>

DetReturn2 ==
    /\ run = 2
    /\ call[1] = "randomize"
    /\ randomize_return
    /\ trace' = Tail(trace)
    /\ UNCHANGED <<width, height, n_calls, run, tape, gameVars>>

InitDet == \E d \in Sizes(MaxDetCells) : Fresh(d[1], d[2])

NextDet ==
    \/ DetRandomize1 \/ DetAdvance1 \/ DetBacktrack1 \/ DetReturn1
    \/ DetNewMaze
    \/ DetRandomize2 \/ DetAdvance2 \/ DetBacktrack2 \/ DetReturn2

SpecDet == InitDet /\ [][NextDet]_vars

(* ------------------------------ MazeGame -------------------------------- *)
(* console.set_display, lines 66-70 of src/console.py: the index in text of *)
(* the first character of line y, searching from index i.                   *)
RECURSIVE line_start(_, _, _)
line_start(text, y, i) ==
    IF y = 0 THEN i
    ELSE IF i > Len(text) THEN i
    ELSE IF text[i] = "\n" THEN line_start(text, y - 1, i + 1)
    ELSE line_start(text, y, i + 1)

(* console.set_display(line, column, ch) for a single character ch. *)
set_display(text, line, column, ch) ==
    [text EXCEPT ![line_start(text, line, 1) + column] = ch]

(* MazeGame._display(pos, value) *)
game_display(text, position, value) ==
    set_display(text, position[2] * 2 + 1, position[1] * 2 + 1, value)

(* Lines 179-181: the text on the screen while the game waits for a key. *)
game_screen ==
    game_display(game_display(repr(cells, width, height), player, "!"), target, "$")

(* The key table with the vertical moves exchanged. *)
key_map_flipped(key) ==
    IF key = "up" THEN <<N, 0, 1>>
    ELSE IF key = "down" THEN <<S, 0, 0 - 1>>
    ELSE IF key = "left" THEN <<W, 0 - 1, 0>>
    ELSE <<E, 1, 0>>

(* Lines 188-191: direction, difx, dify of a key. *)
key_map(key) ==
    IF key = "up" THEN <<N, 0, 0 - 1>>
    ELSE IF key = "down" THEN <<S, 0, 1>>
    ELSE IF key = "left" THEN <<W, 0 - 1, 0>>
    ELSE <<E, 1, 0>>

(* MazeGame.__init__: the maze is constructed (the initial state) and       *)
(* randomize is called on it.                                               *)
GameNew ==
    /\ game = "none"
    /\ n_calls = 0
    /\ \E r \in 0..(Len(cells) - 1) : randomize_begin(r)
    /\ n_calls' = n_calls + 1
    /\ game' = "init"
    /\ UNCHANGED <<width, height, detVars, player, target, current_text>>

(* Lines 175-176: play() draws the two positions. *)
PlayBegin ==
    /\ game = "init"
    /\ pc = "idle"
    /\ ret = <<"None">>
    /\ \E px \in 0..(width - 1), py \in 0..(height - 1),
          tx \in 0..(width - 1), ty \in 0..(height - 1) :
          /\ player' = <<px, py>>
          /\ target' = <<tx, ty>>
    /\ game' = "playing"
    /\ call' = <<"play">>
    /\ UNCHANGED <<width, height, cells, pc, cell, cell_stack, n_visited_cells,
                   n_calls, ret, detVars, walk, current_text>>

(* Lines 178-195: one iteration of the loop of play(), with the key read. *)
PlayKey ==
    /\ game = "playing"
    /\ player # target
    /\ \E key \in {"up", "down", "left", "right", "q"} :
          /\ call' = <<"key", key>>
          /\ current_text' = game_screen
          /\ IF key = "q"
             THEN /\ game' = "quit"
                  /\ ret' = <<"bool", FALSE>>
                  /\ UNCHANGED player
             ELSE \E current_cell \in {getitem(width, height, player[1], player[2])} :
                  IF current_cell = NoneRef
                  THEN /\ game' = "error"
                       /\ ret' = <<"raise", "TypeError">>
                       /\ UNCHANGED player
                  ELSE /\ player' =
                            IF key_map(key)[1] \notin ListGet(cells, current_cell).walls
                            THEN <<player[1] + key_map(key)[2], player[2] + key_map(key)[3]>>
                            ELSE player
                       /\ UNCHANGED <<game, ret>>
    /\ UNCHANGED <<width, height, cells, pc, cell, cell_stack, n_visited_cells,
                   n_calls, detVars, walk, target>>

(* Lines 197-199: the player is on the target. *)
PlayWin ==
    /\ game = "playing"
    /\ player = target
    /\ game' = "won"
    /\ call' = <<"key", "any">>
    /\ ret' = <<"bool", TRUE>>
    /\ current_text' = <<"Y", "o", "u", " ", "w", "i", "n", "!">>
    /\ UNCHANGED <<width, height, cells, pc, cell, cell_stack, n_visited_cells,
                   n_calls, detVars, walk, player, target>>

InitGame == \E d \in Sizes(MaxGameCells) : Fresh(d[1], d[2])

NextGame ==
    \/ GameNew \/ Advance \/ Backtrack \/ Return
    \/ PlayBegin \/ PlayKey \/ PlayWin

SpecGame == InitGame /\ [][NextGame]_vars

(* A call of randomize keeps running until it returns or raises. *)
LiveSpec == Spec /\ WF_vars(Step)

(* ============================ properties ================================ *)
Refs == 0..(Len(cells) - 1)

CellOf(r) == ListGet(cells, r)

Manhattan(a, b) == Abs(a.x - b.x) + Abs(a.y - b.y)

(* The wall of cell a that faces cell b. *)
Facing(a, b) ==
    IF b.y < a.y THEN N
    ELSE IF b.y > a.y THEN S
    ELSE IF b.x < a.x THEN W
    ELSE E

(* The wall between the adjacent cells a and b is removed on both sides. *)
Open(a, b) ==
    /\ Manhattan(a, b) = 1
    /\ Facing(a, b) \notin a.walls
    /\ Facing(b, a) \notin b.walls

OpenPairs == {p \in Refs \X Refs : p[1] < p[2] /\ Open(CellOf(p[1]), CellOf(p[2]))}

(* The first call of randomize on the fresh grid has just returned. *)
FirstReturned ==
    /\ n_calls = 1
    /\ pc = "idle"
    /\ call = <<"randomize">>
    /\ ret = <<"None">>

(* C1: when randomize returns on a fresh w x h grid, exactly w*h - 1 walls  *)
(* between adjacent cells are removed, each open pair counted once.         *)
RemovedWallCount ==
    FirstReturned => Cardinality(OpenPairs) = width * height - 1

RemovedWallCountWitness ==
    /\ FirstReturned
    /\ width = 3
    /\ height = 3
    /\ Cardinality(OpenPairs) = 8

RECURSIVE SumOver(_, _, _, _)
(* The number of simple paths from a to b that avoid the cells in seen. *)
RECURSIVE NPaths(_, _, _)
NPaths(a, b, seen) ==
    IF a = b THEN 1
    ELSE SumOver({n \in Refs \ seen : Open(CellOf(a), CellOf(n))}, b, seen, 0)

SumOver(ns, b, seen, acc) ==
    IF ns = {} THEN acc
    ELSE LET n == CHOOSE m \in ns : TRUE
         IN  SumOver(ns \ {n}, b, seen, acc + NPaths(n, b, seen \cup {n}))

(* C2: after randomize returns on a fresh grid the passage graph is         *)
(* connected and acyclic: exactly one simple path joins any two cells.      *)
PerfectMaze ==
    FirstReturned => \A a \in Refs, b \in Refs : NPaths(a, b, {a}) = 1

PerfectMazeWitness ==
    /\ FirstReturned
    /\ width = 3
    /\ height = 2
    /\ cell_stack # <<>>
    /\ Len(cell_stack) < 5

(* C3: randomize on a fresh grid always terminates: it reaches the state    *)
(* where the visited count equals w*h and returns there, and it never       *)
(* leaves the loop by an error.                                             *)
RandomizeTerminates ==
    /\ (n_calls = 1 /\ pc = "loop")
          ~> (FirstReturned /\ n_visited_cells = width * height)
    /\ [](n_calls = 1 => ret[1] # "raise")

RandomizeTerminatesWitness ==
    /\ FirstReturned
    /\ n_visited_cells = width * height
    /\ width * height >= 6

(* The dead-end branch is about to be taken. *)
DeadEnd ==
    /\ pc = "loop"
    /\ loop_cond(n_visited_cells, cells)
    /\ \A r \in Refs :
          Manhattan(CellOf(cell), CellOf(r)) = 1 => Cardinality(CellOf(r).walls) < 4

(* C4: in randomize on a fresh grid the backtrack stack is non-empty        *)
(* whenever the dead-end branch is taken, so cell_stack.pop() never         *)
(* underflows.                                                              *)
StackNonEmptyAtDeadEnd ==
    (n_calls = 1 /\ DeadEnd) => Len(cell_stack) > 0

StackNonEmptyAtDeadEndWitness ==
    /\ n_calls = 1
    /\ DeadEnd
    /\ Len(cell_stack) = 1
    /\ n_visited_cells >= 4
(* C5: a second call of randomize on the maze an earlier call generated     *)
(* raises no error and leaves every cell's wall set unchanged.              *)
SecondRandomizeIsNoOp ==
    [][(n_calls' = 2 /\ (pc = "loop" \/ pc' = "loop"))
         => (cells' = cells /\ ret'[1] # "raise")]_vars

(* A call connect(a, b) has just been made on the cells a and b. *)
Connected(a, b) == call' = <<"connect", a, b>>

(* C6: connect(a, b) on adjacent cells that still have the walls facing     *)
(* each other removes from a exactly the wall facing b and from b exactly   *)
(* the wall facing a; no other wall of any cell changes.                    *)
ConnectRemovesFacingWalls ==
    [][\A a \in Refs, b \in Refs :
         (/\ Connected(a, b)
          /\ Manhattan(CellOf(a), CellOf(b)) = 1
          /\ Facing(CellOf(a), CellOf(b)) \in CellOf(a).walls
          /\ Facing(CellOf(b), CellOf(a)) \in CellOf(b).walls)
         => /\ ret' = <<"None">>
            /\ Len(cells') = Len(cells)
            /\ \A r \in Refs :
                 /\ cells'[r + 1].x = CellOf(r).x
                 /\ cells'[r + 1].y = CellOf(r).y
                 /\ cells'[r + 1].walls =
                      IF r = a THEN CellOf(a).walls \ {Facing(CellOf(a), CellOf(b))}
                      ELSE IF r = b THEN CellOf(b).walls \ {Facing(CellOf(b), CellOf(a))}
                      ELSE CellOf(r).walls]_vars

ConnectRemovesFacingWallsWitness ==
    /\ call[1] = "connect"
    /\ ret = <<"None">>
    /\ CellOf(call[2]).x < CellOf(call[3]).x
    /\ E \notin CellOf(call[2]).walls
    /\ W \notin CellOf(call[3]).walls
    /\ Cardinality(CellOf(call[2]).walls) = 2

(* C7: connect(a, b) on two cells whose Manhattan distance is not 1 fails   *)
(* with the assertion error and leaves the wall sets of a and b as they     *)
(* were.                                                                    *)
ConnectRejectsNonAdjacent ==
    [][\A a \in Refs, b \in Refs :
         (Connected(a, b) /\ Manhattan(CellOf(a), CellOf(b)) # 1)
         => /\ ret' = <<"raise", "AssertionError">>
            /\ cells'[a + 1].walls = CellOf(a).walls
            /\ cells'[b + 1].walls = CellOf(b).walls]_vars

ConnectRejectsNonAdjacentWitness ==
    /\ call[1] = "connect"
    /\ ret = <<"raise", "AssertionError">>
    /\ Abs(CellOf(call[2]).x - CellOf(call[3]).x) = 1
    /\ Abs(CellOf(call[2]).y - CellOf(call[3]).y) = 1
    /\ Cardinality(OpenPairs) >= 1

(* The marker the rendering must show in column col of row row. *)
Marker(col, row) ==
    IF col % 2 = 1 /\ row % 2 = 1 THEN " "
    ELSE IF row % 2 = 1 /\ col > 0 /\ col < 2 * width
    THEN IF Open(CellOf((col \div 2 - 1) + (row \div 2) * width),
                 CellOf((col \div 2) + (row \div 2) * width)) THEN " " ELSE "O"
    ELSE IF col % 2 = 1 /\ row > 0 /\ row < 2 * height
    THEN IF Open(CellOf((col \div 2) + (row \div 2 - 1) * width),
                 CellOf((col \div 2) + (row \div 2) * width)) THEN " " ELSE "O"
    ELSE "O"

(* 2h+1 rows of 2w+1 markers, each row ended by a newline. *)
ExpectedRender ==
    [i \in 1..((2 * height + 1) * (2 * width + 2)) |->
        IF (i - 1) % (2 * width + 2) = 2 * width + 1 THEN "\n"
        ELSE Marker((i - 1) % (2 * width + 2), (i - 1) \div (2 * width + 2))]

(* C8: in every grid state reached by connect calls, rendering gives 2h+1   *)
(* rows of 2w+1 characters: a passage marker at (2x+1, 2y+1) of every cell  *)
(* and at the midpoint of two adjacent cells exactly when the wall between  *)
(* them is removed, a solid marker everywhere else.                         *)
RenderShowsWalls ==
    call = <<"repr">> => ret = <<"str", ExpectedRender>>

RenderShowsWallsWitness ==
    /\ call = <<"repr">>
    /\ ret[1] = "str"
    /\ width = 2
    /\ height = 3
    /\ Open(CellOf(1), CellOf(3))
    /\ Open(CellOf(3), CellOf(5))
    /\ Open(CellOf(4), CellOf(5))

LookupByPosition ==
    call[1] = "getitem" =>
        IF call[2] < 0 \/ call[2] >= width \/ call[3] < 0 \/ call[3] >= height
        THEN ret = <<"None">>
        ELSE /\ ret[1] = "cell"
             /\ ret[2] \in Refs
             /\ \A r \in Refs :
                  (CellOf(r).x = call[2] /\ CellOf(r).y = call[3]) <=> r = ret[2]

LookupByPositionWitness ==
    /\ call[1] = "getitem"
    /\ ret[1] = "cell"
    /\ call[2] = 1
    /\ call[3] = 2
    /\ width = 2
    /\ height = 3

(* The cells that have been the current cell of the running call. *)
BeenCurrent == {walk[i] : i \in 1..Len(walk)}

(* C11: in randomize on a fresh grid every neighbor chosen in the advance   *)
(* branch has never been the current cell before, every cell other than   *)
(* the start cell is full exactly while it has not been current, and the    *)
(* visited counter equals the number of distinct cells that have been       *)
(* current.                                                                 *)
FullMeansUnvisited ==
    /\ [](n_calls = 1 =>
            /\ n_visited_cells = Cardinality(BeenCurrent)
            /\ \A r \in Refs \ {walk[1]} :
                 (Cardinality(CellOf(r).walls) = 4) <=> (r \notin BeenCurrent))
    /\ [][(n_calls = 1 /\ n_visited_cells' = n_visited_cells + 1)
            => (cell' \notin BeenCurrent /\ cell' # walk[1])]_vars

FullMeansUnvisitedWitness ==
    /\ FirstReturned
    /\ Len(walk) > n_visited_cells + 1
    /\ n_visited_cells = 8
    /\ Cardinality(BeenCurrent) = 8
(* This step of the first call pops the start cell off the stack. *)
PopsStart ==
    /\ n_calls = 1
    /\ pc = "loop"
    /\ Len(cell_stack') < Len(cell_stack)
    /\ cell' = walk[1]

(* Cell r has a neighbor with all four walls standing. *)
HasFullNeighbor(r) ==
    \E q \in Refs :
        /\ Manhattan(CellOf(r), CellOf(q)) = 1
        /\ Cardinality(CellOf(q).walls) = 4

(* C12 as claimed: the start cell is never popped off the backtrack stack   *)
(* while the visited count is below the number of cells.                    *)
StartNeverPoppedEarly ==
    [][PopsStart => ~(n_visited_cells < width * height)]_vars

(* C12 as amended: the start cell is popped only while it still has a full  *)
(* neighbor, so the next iteration advances from it and pushes it back.     *)
StartPoppedOnlyWithFullNeighbor ==
    [][PopsStart => (HasFullNeighbor(walk[1]) /\ cell_stack' = <<>>)]_vars

StartPoppedOnlyWithFullNeighborWitness ==
    /\ n_calls = 1
    /\ pc = "loop"
    /\ Len(walk) > 1
    /\ cell = walk[1]
    /\ cell_stack = <<>>
    /\ n_visited_cells < width * height
(* The loop iterations (advance or backtrack) the running call has made. *)
Iterations == Len(walk) - 1

(* C13 as claimed: randomize on a fresh w x h grid makes at most w*h loop   *)
(* iterations.                                                              *)
AtMostCellCountSteps ==
    n_calls = 1 => Iterations <= width * height

(* C13 as amended: randomize on a fresh w x h grid makes at most            *)
(* 2*w*h - 3 loop iterations (none on a single cell).                       *)
AtMostTwiceCellCountSteps ==
    n_calls = 1 =>
        Iterations <= (IF width * height = 1 THEN 0 ELSE 2 * width * height - 3)

AtMostTwiceCellCountStepsWitness ==
    /\ FirstReturned
    /\ width * height = 9
    /\ Iterations = 2 * width * height - 3
(* The position in walk at which cell r first became current. *)
FirstAt(r) == CHOOSE i \in 1..Len(walk) : walk[i] = r /\ \A j \in 1..(i - 1) : walk[j] # r

(* The cell from which r was entered (r is not the start cell). *)
Parent(r) == walk[FirstAt(r) - 1]

(* C14: after randomize returns on a fresh grid with at least two cells,    *)
(* every non-start cell has the wall facing its parent removed and no cell, *)
(* the start cell included, is still full.                                  *)
ParentWallRemoved ==
    (FirstReturned /\ width * height >= 2) =>
        \A r \in Refs :
            /\ Cardinality(CellOf(r).walls) < 4
            /\ r # walk[1] =>
                 /\ r \in BeenCurrent
                 /\ Manhattan(CellOf(r), CellOf(Parent(r))) = 1
                 /\ Facing(CellOf(r), CellOf(Parent(r))) \notin CellOf(r).walls

ParentWallRemovedWitness ==
    /\ FirstReturned
    /\ width = 3
    /\ height = 3
    /\ \E r \in Refs \ {walk[1]} :
          /\ Cardinality(CellOf(r).walls) = 1
          /\ Parent(r) # walk[1]
(* This step is made by MazeGame.play. *)
PlayStep == game' \in {"playing", "won", "quit", "error"}

(* C15: a cell's wall set only shrinks: over every step of construction,    *)
(* connect, randomize, rendering and play each cell's wall set is a subset  *)
(* of what it was, and rendering and play leave all wall sets unchanged.    *)
WallsOnlyShrink ==
    [][/\ Len(cells') = Len(cells)
       /\ \A r \in Refs : cells'[r + 1].walls \subseteq CellOf(r).walls
       /\ PlayStep => cells' = cells]_vars

WallsOnlyShrinkWitness ==
    /\ game = "playing"
    /\ call = <<"key", "down">>
    /\ current_text # <<>>
    /\ width * height = 6
    /\ Cardinality(OpenPairs) = 5
    /\ \E r \in Refs : Cardinality(CellOf(r).walls) = 1

(* The cell at the player's position, NoneRef outside the grid. *)
PlayerCell ==
    IF \E r \in Refs : CellOf(r).x = player[1] /\ CellOf(r).y = player[2]
    THEN CHOOSE r \in Refs : CellOf(r).x = player[1] /\ CellOf(r).y = player[2]
    ELSE NoneRef

KeyWall(key) ==
    IF key = "up" THEN N ELSE IF key = "down" THEN S ELSE IF key = "left" THEN W ELSE E

KeyMove(key) ==
    IF key = "up" THEN <<0, 0 - 1>> ELSE IF key = "down" THEN <<0, 1>>
    ELSE IF key = "left" THEN <<0 - 1, 0>> ELSE <<1, 0>>

(* C18: in play on a generated maze the player position is always a cell of *)
(* the maze; a key press moves it by one cell in the pressed direction      *)
(* exactly when the current cell's wall in that direction is removed, and   *)
(* leaves it unchanged against a standing wall.                             *)
PlayerStaysInMaze ==
    /\ [](game \in {"playing", "won", "quit"} => PlayerCell # NoneRef)
    /\ [](game # "error")
    /\ [][\A key \in {"up", "down", "left", "right"} :
            (game = "playing" /\ call' = <<"key", key>>) =>
                player' = IF KeyWall(key) \notin CellOf(PlayerCell).walls
                          THEN <<player[1] + KeyMove(key)[1], player[2] + KeyMove(key)[2]>>
                          ELSE player]_vars

PlayerStaysInMazeWitness ==
    /\ game = "playing"
    /\ call = <<"key", "up">>
    /\ player = <<1, 0>>
    /\ S \notin CellOf(PlayerCell).walls
    /\ width = 2
    /\ height = 3
(* The cells stored with position (x, y), as a sequence (empty or one). *)
CellsAt(x, y) ==
    LET at == {q \in Refs : CellOf(q).x = x /\ CellOf(q).y = y}
    IN  IF at = {} THEN <<>> ELSE <<CHOOSE q \in at : TRUE>>

(* C16: neighbors(cell) yields exactly the cells of the grid at Manhattan   *)
(* distance 1 from cell, each once, in the order North, South, West, East.  *)
NeighborsInOrder ==
    \A r \in Refs :
        LET c == CellOf(r)
            ns == neighbors(cells, width, height, r)
        IN  /\ ns = CellsAt(c.x, c.y - 1) \o CellsAt(c.x, c.y + 1)
                     \o CellsAt(c.x - 1, c.y) \o CellsAt(c.x + 1, c.y)
            /\ {ns[i] : i \in 1..Len(ns)} =
                   {q \in Refs : Manhattan(c, CellOf(q)) = 1}
            /\ Len(ns) = Cardinality({q \in Refs : Manhattan(c, CellOf(q)) = 1})

NeighborsInOrderWitness ==
    /\ n_calls = 1
    /\ pc = "loop"
    /\ width = 3
    /\ height = 3
    /\ Len(walk) >= 3
    /\ walk[1] = 4
    /\ walk[2] = 3
    /\ cell = 0
    /\ neighbors(cells, width, height, 4) = <<1, 7, 3, 5>>
    /\ neighbors(cells, width, height, 0) = <<3, 1>>

(* C17: between the loop iterations of randomize on a fresh grid the walls  *)
(* are consistent (a's wall facing b is removed iff b's wall facing a is)   *)
(* and no wall on the outer boundary of the grid is removed.                *)
WallsConsistent ==
    n_calls = 1 =>
        /\ \A a \in Refs, b \in Refs :
              Manhattan(CellOf(a), CellOf(b)) = 1 =>
                  ((Facing(CellOf(a), CellOf(b)) \in CellOf(a).walls)
                     <=> (Facing(CellOf(b), CellOf(a)) \in CellOf(b).walls))
        /\ \A r \in Refs :
              /\ CellOf(r).y = 0 => N \in CellOf(r).walls
              /\ CellOf(r).y = height - 1 => S \in CellOf(r).walls
              /\ CellOf(r).x = 0 => W \in CellOf(r).walls
              /\ CellOf(r).x = width - 1 => E \in CellOf(r).walls

WallsConsistentWitness ==
    /\ n_calls = 1
    /\ pc = "loop"
    /\ width = 3
    /\ height = 3
    /\ n_visited_cells = 5
    /\ Cardinality(CellOf(4).walls) = 2
    /\ Len(walk) > 5
(* The cells from the start cell down to r along the parent relation. *)
RECURSIVE AncestorChain(_)
AncestorChain(r) ==
    IF r = walk[1] THEN <<r>> ELSE Append(AncestorChain(Parent(r)), r)

(* C19: at the start of every loop iteration of randomize on a fresh grid   *)
(* the backtrack stack followed by the current cell is the chain of         *)
(* ancestors of the current cell, consecutive stack entries are adjacent    *)
(* cells joined by a removed wall, and every visited cell that still has a  *)
(* full neighbor is the current cell or is on the stack.                    *)
StackIsAncestorChain ==
    (n_calls = 1 /\ pc = "loop") =>
        /\ Append(cell_stack, cell) = AncestorChain(cell)
        /\ \A i \in 1..(Len(cell_stack) - 1) :
              Open(CellOf(cell_stack[i]), CellOf(cell_stack[i + 1]))
        /\ \A r \in BeenCurrent :
              HasFullNeighbor(r) =>
                  (r = cell \/ \E i \in 1..Len(cell_stack) : cell_stack[i] = r)

StackIsAncestorChainWitness ==
    /\ n_calls = 1
    /\ pc = "loop"
    /\ Len(cell_stack) >= 2
    /\ Len(walk) > n_visited_cells
    /\ n_visited_cells < width * height
    /\ HasFullNeighbor(cell_stack[2])
    /\ \E r \in BeenCurrent :
          r # cell /\ \A i \in 1..Len(cell_stack) : cell_stack[i] # r
====
